---- MODULE Spec2Model ----
(***************************************************************************)
(* Brian's Brain (src/briansbrain.c): a three-state cellular automaton on  *)
(* a fixed grid without wrap-around, seeded by populate, advanced by       *)
(* apply_rules and driven by the SDL loop of main.                         *)
(*                                                                         *)
(* The grid dimensions MAX_X and MAX_Y are compile-time constants of the   *)
(* program; they are variables here, fixed by each initial condition and   *)
(* never changed, so that the same functions can be checked on the small   *)
(* square grids of the bounds, on the 5x5 grid of the scenario and on      *)
(* non-square grids.                                                       *)
(***************************************************************************)
EXTENDS Integers, Sequences, FiniteSets, TLC

VARIABLES
    MAX_X,       \* #define MAX_X: first extent of int world[MAX_X][MAX_Y]
    MAX_Y,       \* #define MAX_Y: second extent
    world,       \* the grid of main, [<<x, y>> -> int], world[x][y] in the code
    pc,          \* position of main ("call" in the specifications that call one function)
    user_exit,   \* int user_exit of main
    queue,       \* SDL events pending, oldest first
    gen,         \* number of apply_rules calls main has made
    randStream,  \* the sequence rand() walks through, as [start, step]
    randCalls,   \* number of rand() calls made so far
    pre,         \* history: the grid as it was before the last populate/apply_rules
    last,        \* history: the last call, [op, rand, draws]
    visits,      \* history: the <<x, y>> the last call's loops indexed, in order
    nbReads,     \* history: the <<cx, cy>> count_neighbours read during the last call
    sdl_init,    \* what SDL_Init returned: 0, or -1 when it failed
    screen,      \* SDL_Surface *screen of main: "unset", "surface" or "NULL"
    canvas,      \* the pixels of the screen surface, [rectangle origin -> colour]
    shown,       \* the pixels the last SDL_Flip put in the window
    frames,      \* number of frames SDL_Flip has put in the window
    observed,    \* history: the poll has taken an SDL_QUIT or SDL_KEYDOWN event
    posted,      \* number of events the user has produced
    pending,     \* history: events that were queued when the current poll began
    taken        \* history: events the current poll has taken

display == <<sdl_init, screen, canvas, shown, frames>>
input == <<observed, posted, pending, taken>>

vars == <<MAX_X, MAX_Y, world, pc, user_exit, queue, gen, randStream, randCalls,
          pre, last, visits, nbReads, display, input>>

-----------------------------------------------------------------------------
(* Bounds of the model *)

GridSize == 3       \* extent of the square grids explored (300 in the program)
MaxDirty == 2       \* input grids: at most this many cells hold anything but READY, or
MaxFiring == 3      \* at most this many cells are FIRING and all others READY
MaxRand == 11       \* rand() returns 0..MaxRand
MaxStep == 1        \* explored rand() sequences advance by 0..MaxStep per call
MaxDim == 3         \* extents tried when MAX_X and MAX_Y vary independently
MaxEvents == 2      \* the user produces at most this many SDL events in a run
MaxGen == 2         \* gen and frames count up to this many generations and frames

-----------------------------------------------------------------------------
(* Program constants *)

READY == 0
REFRACTORY == 1
FIRING == 2
DENSITY == 7
CELLSIZE == 2
LINE == 1

SDL_QUIT == "SDL_QUIT"
SDL_KEYDOWN == "SDL_KEYDOWN"
SDL_OTHER == "SDL_MOUSEMOTION"   \* any event type the switch has no case for
EventTypes == {SDL_QUIT, SDL_KEYDOWN, SDL_OTHER}

States == {READY, REFRACTORY, FIRING}

\* An int that is none of the three states; the code compares cells with READY
\* and FIRING only, so it stands for every such int.
Foreign == FIRING + 1
CellValues == States \cup {Foreign}

-----------------------------------------------------------------------------------------------------------------------------------------------------
(* The array int world[MAX_X][MAX_Y]: world[x][y] *)

Cells == (0 .. MAX_X - 1) \X (0 .. MAX_Y - 1)

InRange(x, y) == (0 <= x /\ x < MAX_X) /\ (0 <= y /\ y < MAX_Y)

\* The loops "for (y = 0; y < MAX_X; y++) for (x = 0; x < MAX_Y; x++)" of
\* apply_rules and populate: the <<x, y>> they index, in order.
LoopOrder ==
    [k \in 1 .. MAX_X * MAX_Y |-> <<(k - 1) % MAX_Y, (k - 1) \div MAX_Y>>]

\* The indices of the loops that lie outside the array (none when MAX_X = MAX_Y).
OobVisits == {LoopOrder[k] : k \in 1 .. MAX_X * MAX_Y} \ Cells

\* What an access outside the array may do (undefined behaviour): for every
\* such index, the value a load yields and whether a store lands on the cell
\* the row-major address x * MAX_Y + y denotes (when it lies inside the array)
\* or outside the grid.
Oracles == [OobVisits -> CellValues \X BOOLEAN]

\* cell = temp[x][y]
Load(g, x, y, ub) ==
    IF InRange(x, y) THEN g[x][y] ELSE ub[<<x, y>>][1]

\* world[x][y] = v
Store(g, x, y, v, ub) ==
    IF InRange(x, y) THEN [g EXCEPT ![x][y] = v]
    ELSE LET f == x * MAX_Y + y
         IN  IF ub[<<x, y>>][2] /\ 0 <= f /\ f < MAX_X * MAX_Y
             THEN [g EXCEPT ![f \div MAX_Y][f % MAX_Y] = v]
             ELSE g

-----------------------------------------------------------------------------
(* rand(), weighted_randint *)

\* The explored rand() sequences: call number n (from 0) returns
\* (start + n * step) % (MaxRand + 1); srand(time(0)) selects one of them.
RandStreams == [start : 0 .. MaxRand, step : 0 .. MaxStep]

RandAt(n) == (randStream.start + n * randStream.step) % (MaxRand + 1)

\* int choice = rand() % 10, for the rand() call number n
Choice(n) == RandAt(n) % 10

\* weighted_randint(true_weight), drawing with the rand() call number n
weighted_randint(true_weight, n) ==
    IF Choice(n) > true_weight THEN 1 ELSE 0

-----------------------------------------------------------------------------
(* count_neighbours *)

\* if ((0 <= cx && cx < MAX_X) && (0 <= cy && cy < MAX_Y))
BoundsCheck(cx, cy) == (0 <= cx /\ cx < MAX_X) /\ (0 <= cy /\ cy < MAX_Y)

\* for (y = -1; y < 2; y++) for (x = -1; x < 2; x++) { ... }, from <<x, y>> on
RECURSIVE CountLoop(_, _, _, _, _, _)
CountLoop(w, x_pos, y_pos, x, y, count) ==
    IF ~(y < 2) THEN count
    ELSE IF ~(x < 2) THEN CountLoop(w, x_pos, y_pos, -1, y + 1, count)
    ELSE LET cx == x_pos + x
             cy == y_pos + y
         IN  CountLoop(w, x_pos, y_pos, x + 1, y,
                 IF BoundsCheck(cx, cy)
                 THEN IF w[x_pos + x][y_pos + y] = FIRING
                      THEN count + 1 ELSE count
                 ELSE count)

\* Variant: the count wraps around the edges instead of skipping what lies
\* outside the array.
count_neighbours_wrap(w, x_pos, y_pos) ==
    Cardinality({o \in (-1 .. 1) \X (-1 .. 1) :
        w[(x_pos + o[1] + MAX_X) % MAX_X][(y_pos + o[2] + MAX_Y) % MAX_Y]
            = FIRING})

\* Variant: only the four orthogonal neighbours are counted.
count_neighbours_orthogonal(w, x_pos, y_pos) ==
    Cardinality({o \in {<<-1, 0>>, <<1, 0>>, <<0, -1>>, <<0, 1>>} :
        /\ BoundsCheck(x_pos + o[1], y_pos + o[2])
        /\ w[x_pos + o[1]][y_pos + o[2]] = FIRING})

\* Variant: the centre of the block is skipped (if (x == 0 && y == 0) continue).
count_neighbours_skipcentre(w, x_pos, y_pos) ==
    Cardinality({o \in ((-1 .. 1) \X (-1 .. 1)) \ {<<0, 0>>} :
        /\ BoundsCheck(x_pos + o[1], y_pos + o[2])
        /\ w[x_pos + o[1]][y_pos + o[2]] = FIRING})

\* Variant: every cell that is not READY is counted (!= READY for == FIRING).
count_neighbours_nonready(w, x_pos, y_pos) ==
    Cardinality({o \in (-1 .. 1) \X (-1 .. 1) :
        /\ BoundsCheck(x_pos + o[1], y_pos + o[2])
        /\ w[x_pos + o[1]][y_pos + o[2]] # READY})

count_neighbours(w, x_pos, y_pos) == CountLoop(w, x_pos, y_pos, -1, -1, 0)

\* The indices count_neighbours(w, x_pos, y_pos) reads.
NeighbourReads(x_pos, y_pos) ==
    {c \in {<<x_pos + x, y_pos + y>> : x \in -1 .. 1, y \in -1 .. 1} :
        BoundsCheck(c[1], c[2])}

-----------------------------------------------------------------------------
(* apply_rules *)

\* Variant: a ready cell fires with two or more firing neighbours.
RulesStep_AtLeast2(w, tmp, x, y, ub) ==
    LET cell == Load(tmp, x, y, ub)
    IN  IF cell = READY
        THEN IF count_neighbours(tmp, x, y) >= 2
             THEN Store(w, x, y, FIRING, ub)
             ELSE w
        ELSE IF cell = FIRING
             THEN Store(w, x, y, REFRACTORY, ub)
             ELSE Store(w, x, y, READY, ub)

\* Variant: a firing cell with two firing neighbours keeps firing.
RulesStep_Sustain(w, tmp, x, y, ub) ==
    LET cell == Load(tmp, x, y, ub)
    IN  IF cell = READY
        THEN IF count_neighbours(tmp, x, y) = 2
             THEN Store(w, x, y, FIRING, ub)
             ELSE w
        ELSE IF cell = FIRING
             THEN IF count_neighbours(tmp, x, y) = 2
                  THEN w
                  ELSE Store(w, x, y, REFRACTORY, ub)
             ELSE Store(w, x, y, READY, ub)

\* Variant: the final else is missing, a refractory cell is left as it is.
RulesStep_NoElse(w, tmp, x, y, ub) ==
    LET cell == Load(tmp, x, y, ub)
    IN  IF cell = READY
        THEN IF count_neighbours(tmp, x, y) = 2
             THEN Store(w, x, y, FIRING, ub)
             ELSE w
        ELSE IF cell = FIRING
             THEN Store(w, x, y, REFRACTORY, ub)
             ELSE w

\* Variant: no copy is used, the cell and its neighbours are read from the
\* array being written.
RulesStep_InPlace(w, tmp, x, y, ub) ==
    LET cell == Load(w, x, y, ub)
    IN  IF cell = READY
        THEN IF count_neighbours(w, x, y) = 2
             THEN Store(w, x, y, FIRING, ub)
             ELSE w
        ELSE IF cell = FIRING
             THEN Store(w, x, y, REFRACTORY, ub)
             ELSE Store(w, x, y, READY, ub)

\* The body of the loops of apply_rules for one <<x, y>>: tmp is the copy
\* made by memcpy, w the array being written.
\* Variant: a refractory cell takes part in the ignition rule like a ready one.
RulesStep_RefractoryFires(w, tmp, x, y, ub) ==
    LET cell == Load(tmp, x, y, ub)
    IN  IF cell = READY \/ cell = REFRACTORY
        THEN IF count_neighbours(tmp, x, y) = 2
             THEN Store(w, x, y, FIRING, ub)
             ELSE Store(w, x, y, READY, ub)
        ELSE IF cell = FIRING
             THEN Store(w, x, y, REFRACTORY, ub)
             ELSE Store(w, x, y, READY, ub)

\* Variant: a ready cell fires with one firing neighbour or more.
RulesStep_AtLeast1(w, tmp, x, y, ub) ==
    LET cell == Load(tmp, x, y, ub)
    IN  IF cell = READY
        THEN IF count_neighbours(tmp, x, y) >= 1
             THEN Store(w, x, y, FIRING, ub)
             ELSE w
        ELSE IF cell = FIRING
             THEN Store(w, x, y, REFRACTORY, ub)
             ELSE Store(w, x, y, READY, ub)

RulesStep(w, tmp, x, y, ub) ==
    LET cell == Load(tmp, x, y, ub)
    IN  IF cell = READY
        THEN IF count_neighbours(tmp, x, y) = 2
             THEN Store(w, x, y, FIRING, ub)
             ELSE w
        ELSE IF cell = FIRING
             THEN Store(w, x, y, REFRACTORY, ub)
             ELSE Store(w, x, y, READY, ub)

\* for (y = 0; y < MAX_X; y++) for (x = 0; x < MAX_Y; x++) { ... }, from <<x, y>> on
RECURSIVE RulesLoop(_, _, _, _, _)
RulesLoop(w, tmp, x, y, ub) ==
    IF ~(y < MAX_X) THEN w
    ELSE IF ~(x < MAX_Y) THEN RulesLoop(w, tmp, 0, y + 1, ub)
    ELSE RulesLoop(RulesStep(w, tmp, x, y, ub), tmp, x + 1, y, ub)

\* memcpy(temp, world, sizeof(temp)), then the loops
apply_rules(w, ub) == RulesLoop(w, w, 0, 0, ub)

\* The indices the count_neighbours calls of apply_rules(w) read.
RulesReads(w, ub) ==
    UNION {NeighbourReads(c[1], c[2]) : c \in
        {d \in Cells \cup OobVisits :
            /\ d[2] < MAX_X /\ d[1] < MAX_Y
            /\ Load(w, d[1], d[2], ub) = READY}}

-----------------------------------------------------------------------------
(* populate *)

\* Variant: the flag is tested as "if (rand)", so every non-zero flag randomises.
PopStep_Truthy(w, rand, x, y, n, ub) ==
    IF rand # 0
    THEN LET r == weighted_randint(DENSITY, n)
         IN  [world |-> IF r = 1 THEN Store(w, x, y, FIRING, ub) ELSE w,
              calls |-> n + 1]
    ELSE [world |-> Store(w, x, y, READY, ub), calls |-> n]

\* The body of the loops of populate for one <<x, y>>; n is the number of
\* rand() calls made before it. Yields the array and the new number of calls.
PopStep(w, rand, x, y, n, ub) ==
    IF rand = 1
    THEN LET r == weighted_randint(DENSITY, n)
         IN  [world |-> IF r = 1 THEN Store(w, x, y, FIRING, ub) ELSE w,
              calls |-> n + 1]
    ELSE [world |-> Store(w, x, y, READY, ub), calls |-> n]

\* for (y = 0; y < MAX_X; y++) for (x = 0; x < MAX_Y; x++) { ... }, from <<x, y>> on
RECURSIVE PopLoop(_, _, _, _, _, _)
PopLoop(w, rand, x, y, n, ub) ==
    IF ~(y < MAX_X) THEN [world |-> w, calls |-> n]
    ELSE IF ~(x < MAX_Y) THEN PopLoop(w, rand, 0, y + 1, n, ub)
    ELSE LET s == PopStep(w, rand, x, y, n, ub)
         IN  \* a step makes at most one rand() call; testing it here has the
             \* step evaluated before the loop goes on
             CASE s.calls \in {n, n + 1} ->
                 PopLoop(s.world, rand, x + 1, y, s.calls, ub)

populate(w, rand, ub) == PopLoop(w, rand, 0, 0, randCalls, ub)

-----------------------------------------------------------------------------
(* Input grids *)

\* The subsets of S with at most k elements.
RECURSIVE UpTo(_, _)
UpTo(S, k) ==
    IF k = 0 THEN {{}}
    ELSE LET P == UpTo(S, k - 1)
         IN  P \cup {T \cup {c} : T \in P, c \in S}

\* The grid in which the cells of D hold f and all others READY.
GridWith(D, f) ==
    [x \in 0 .. MAX_X - 1 |-> [y \in 0 .. MAX_Y - 1 |->
        IF <<x, y>> \in D THEN f[<<x, y>>] ELSE READY]]

\* g ranges over the grids in which at most k cells hold a value of V and all
\* others READY (written so that the grids are enumerated one by one).
DirtyGrid(g, k, V) ==
    \E D \in UpTo(Cells, k) : \E f \in [D -> V] : g = GridWith(D, f)

\* The input grids of the specifications that call apply_rules.
InputGrid(g) ==
    \/ DirtyGrid(g, MaxDirty, CellValues \ {READY})
    \/ DirtyGrid(g, MaxFiring, {FIRING})

\* What an array that was never written may hold: here every word the same int.
UniformGrid(g) ==
    \E v \in CellValues :
        g = [x \in 0 .. MAX_X - 1 |-> [y \in 0 .. MAX_Y - 1 |-> v]]

-----------------------------------------------------------------------------
(* The renderers: print_world and draw_world_rects *)

\* The screen surface, as the colour at the top-left pixel of every cell's
\* rectangle: SDL_SetVideoMode(MAX_X*CELLSIZE, MAX_Y*CELLSIZE, ...).
NewSurface ==
    [o \in {<<c[1] * CELLSIZE, c[2] * CELLSIZE>> : c \in Cells} |-> "black"]

\* No surface: before SDL_SetVideoMode, or when it returned NULL.
NoSurface == <<>>

\* The NULL that SDL_FillRect(screen, NULL, 0) passes for the rectangle
NullRect == [x |-> -1, y |-> -1, w |-> 0, h |-> 0]

\* SDL_FillRect fills the whole surface when given NULL, else the rectangle:
\* a cell's rectangle starts at the cell's origin and is smaller than
\* cellsize, so it covers the pixel at that origin and at no other origin.
SDL_FillRect(surface, rect, colour) ==
    IF rect = NullRect
    THEN [o \in DOMAIN surface |-> colour]
    ELSE [surface EXCEPT ![<<rect.x, rect.y>>] = colour]

\* SDL_Rect cell = {x*cellsize, y*cellsize, cellsize-linew, cellsize-linew}
CellRect(x, y, cellsize, linew) ==
    [x |-> x * cellsize, y |-> y * cellsize,
     w |-> cellsize - linew, h |-> cellsize - linew]

\* The body of the loops of draw_world_rects for one cell
DrawStep(surface, w, x, y, cellsize, linew) ==
    IF w[x][y] = FIRING
    THEN SDL_FillRect(surface, CellRect(x, y, cellsize, linew), "green")
    ELSE IF w[x][y] = REFRACTORY
         THEN SDL_FillRect(surface, CellRect(x, y, cellsize, linew), "blue")
         ELSE surface

\* for (y = 0; y < MAX_Y; y++) for (x = 0; x < MAX_X; x++)
RECURSIVE DrawLoop(_, _, _, _, _, _)
DrawLoop(surface, w, x, y, cellsize, linew) ==
    IF ~(y < MAX_Y) THEN surface
    ELSE IF ~(x < MAX_X) THEN DrawLoop(surface, w, 0, y + 1, cellsize, linew)
    ELSE DrawLoop(DrawStep(surface, w, x, y, cellsize, linew), w, x + 1, y,
                  cellsize, linew)

\* The surface as draw_world_rects leaves it; world is only read
draw_world_rects(surface, w, cellsize, linew) ==
    DrawLoop(surface, w, 0, 0, cellsize, linew)

\* The character print_world prints for one cell ("grave" is the grave
\* accent, ASCII 96)
PrintStep(w, x, y, ub) ==
    LET cell == Load(w, x, y, ub)
    IN  IF cell = FIRING THEN "@"
        ELSE IF cell = REFRACTORY THEN "*"
        ELSE "grave"

\* for (y = 0; y < MAX_X; y++) for (x = 0; x < MAX_Y; x++): the lines printed
\* so far are out, the characters of the current line are line.
RECURSIVE PrintLoop(_, _, _, _, _, _)
PrintLoop(w, x, y, out, line, ub) ==
    IF ~(y < MAX_X) THEN out
    ELSE IF ~(x < MAX_Y) THEN PrintLoop(w, 0, y + 1, Append(out, line), <<>>, ub)
    ELSE PrintLoop(w, x + 1, y, out, Append(line, PrintStep(w, x, y, ub)), ub)

\* The text print_world writes; world is only read
print_world(w, ub) == PrintLoop(w, 0, 0, <<>>, <<>>, ub)

NoCall == [op |-> "none", rand |-> 0, draws |-> <<>>]

-----
(* The two functions as steps: what a call does to the state *)

DoApplyRules(ub) ==
    /\ world' = apply_rules(world, ub)
    /\ pre' = world
    /\ last' = [op |-> "apply_rules", rand |-> 0, draws |-> <<>>]
    /\ visits' = LoopOrder
    /\ nbReads' = RulesReads(world, ub)
    /\ UNCHANGED <<MAX_X, MAX_Y, randStream, randCalls>>

DoPopulate(rand, ub) ==
    LET res == populate(world, rand, ub)
    IN  /\ world' = res.world
        /\ randCalls' = res.calls
        /\ pre' = world
        /\ last' = [op |-> "populate", rand |-> rand,
                    draws |-> [k \in 1 .. res.calls - randCalls |->
                                  Choice(randCalls + k - 1)]]
        /\ visits' = LoopOrder
        /\ nbReads' = {}
        /\ UNCHANGED <<MAX_X, MAX_Y, randStream>>

-----------------------------------------------------------------------------
(* main *)

\* Nothing of SDL exists: before SDL_Init, and in the specifications that
\* call one function.
NoWindow ==
    /\ sdl_init = 0
    /\ screen = "unset"
    /\ canvas = NoSurface
    /\ shown = NoSurface
    /\ frames = 0
    /\ observed = FALSE
    /\ posted = 0
    /\ pending = 0
    /\ taken = 0

\* gen and frames stop counting at MaxGen
Bump(n) == IF n < MaxGen THEN n + 1 ELSE n

\* int world[MAX_X][MAX_Y] and int user_exit are not initialised; srand(time(0))
\* has selected the rand() sequence.
Init ==
    /\ MAX_X = GridSize
    /\ MAX_Y = GridSize
    /\ UniformGrid(world)
    /\ pc = "populate"
    /\ NoWindow
    /\ user_exit \in {0, 1}
    /\ queue = <<>>
    /\ gen = 0
    /\ randStream \in RandStreams
    /\ randCalls = 0
    /\ pre = world
    /\ last = NoCall
    /\ visits = <<>>
    /\ nbReads = {}

\* populate(world, 1);
MainPopulate ==
    /\ pc = "populate"
    /\ \E ub \in Oracles : DoPopulate(1, ub)
    /\ pc' = "sdl"
    /\ UNCHANGED <<user_exit, queue, gen, display, input>>

\* SDL_Init(SDL_INIT_VIDEO); screen = SDL_SetVideoMode(...); neither result
\* is tested. Without the video subsystem there is no surface.
MainSetUpSDL ==
    /\ pc = "sdl"
    /\ \E r \in {0, -1} :
          /\ sdl_init' = r
          /\ screen' \in IF r = 0 THEN {"surface", "NULL"} ELSE {"NULL"}
    /\ canvas' = IF screen' = "surface" THEN NewSurface ELSE NoSurface
    /\ pc' = "loop"
    /\ UNCHANGED <<MAX_X, MAX_Y, world, user_exit, queue, gen, randStream,
                   randCalls, pre, last, visits, nbReads, shown, frames, input>>

\* while (!user_exit)
MainLoopTest ==
    /\ pc = "loop"
    /\ pc' = IF user_exit = 0 THEN "rules" ELSE "quit"
    /\ UNCHANGED <<MAX_X, MAX_Y, world, user_exit, queue, gen, randStream,
                   randCalls, pre, last, visits, nbReads, display, input>>

\* A null surface is dereferenced (SDL_FillRect and SDL_Flip on screen,
\* surface->format in draw_world_rects): the process is killed, unless the
\* call happens to return.
Crash ==
    /\ screen = "NULL"
    /\ pc' = "crashed"
    /\ UNCHANGED <<MAX_X, MAX_Y, world, user_exit, queue, gen, randStream,
                   randCalls, pre, last, visits, nbReads, display, input>>

\* The loop body without SDL_FillRect(screen, NULL, 0): the surface is not
\* blanked before the next frame is drawn on it
MainApplyRules_NoBlank ==
    /\ pc = "rules"
    /\ \/ Crash
       \/ /\ \E ub \in Oracles : DoApplyRules(ub)
          /\ gen' = Bump(gen)
          /\ pc' = "draw"
          /\ UNCHANGED <<user_exit, queue, display, input>>

\* SDL_FillRect(screen, NULL, 0); apply_rules(world);
MainApplyRules ==
    /\ pc = "rules"
    /\ \/ Crash
       \/ /\ canvas' = IF screen = "surface"
                       THEN SDL_FillRect(canvas, NullRect, "black")
                       ELSE canvas
          /\ \E ub \in Oracles : DoApplyRules(ub)
          /\ gen' = Bump(gen)
          /\ pc' = "draw"
          /\ UNCHANGED <<user_exit, queue, sdl_init, screen, shown, frames, input>>

\* draw_world_rects(screen, world, CELLSIZE, LINE); SDL_Flip(screen); and
\* the poll loop is reached.
MainDraw ==
    /\ pc = "draw"
    /\ \/ Crash
       \/ /\ IF screen = "surface"
             THEN /\ canvas' = draw_world_rects(canvas, world, CELLSIZE, LINE)
                  /\ shown' = canvas'
                  /\ frames' = Bump(frames)
             ELSE UNCHANGED <<canvas, shown, frames>>
          /\ pending' = Len(queue)
          /\ taken' = 0
          /\ pc' = "poll"
          /\ UNCHANGED <<MAX_X, MAX_Y, world, user_exit, queue, gen, randStream, randCalls,
                         pre, last, visits, nbReads, sdl_init, screen, observed,
                         posted>>

\* The switch without case SDL_KEYDOWN
MainPoll_QuitOnly ==
    /\ pc = "poll"
    /\ IF queue = <<>>
       THEN /\ pc' = "wait"
            /\ UNCHANGED <<user_exit, queue, observed, taken>>
       ELSE /\ queue' = Tail(queue)
            /\ taken' = taken + 1
            /\ observed' = (observed \/ Head(queue) \in {SDL_QUIT, SDL_KEYDOWN})
            /\ user_exit' = IF Head(queue) = SDL_QUIT THEN 1 ELSE user_exit
            /\ pc' = "poll"
    /\ UNCHANGED <<MAX_X, MAX_Y, world, gen, randStream, randCalls, pre, last,
                   visits, nbReads, display, posted, pending>>

\* if (SDL_PollEvent(&event)) in place of while: one event a frame
MainPoll_Once ==
    /\ pc = "poll"
    /\ pc' = "wait"
    /\ IF queue = <<>>
       THEN UNCHANGED <<user_exit, queue, observed, taken>>
       ELSE /\ queue' = Tail(queue)
            /\ taken' = taken + 1
            /\ observed' = (observed \/ Head(queue) \in {SDL_QUIT, SDL_KEYDOWN})
            /\ user_exit' = IF Head(queue) \in {SDL_QUIT, SDL_KEYDOWN}
                            THEN 1 ELSE user_exit
    /\ UNCHANGED <<MAX_X, MAX_Y, world, gen, randStream, randCalls, pre, last,
                   visits, nbReads, display, posted, pending>>

\* while (SDL_PollEvent(&event)) switch (event.type) ...: one call of
\* SDL_PollEvent and, when it returned an event, the switch.
MainPoll ==
    /\ pc = "poll"
    /\ IF queue = <<>>
       THEN /\ pc' = "wait"
            /\ UNCHANGED <<user_exit, queue, observed, taken>>
       ELSE /\ queue' = Tail(queue)
            /\ taken' = taken + 1
            /\ observed' = (observed \/ Head(queue) \in {SDL_QUIT, SDL_KEYDOWN})
            /\ user_exit' = IF Head(queue) \in {SDL_QUIT, SDL_KEYDOWN}
                            THEN 1 ELSE user_exit
            /\ pc' = "poll"
    /\ UNCHANGED <<MAX_X, MAX_Y, world, gen, randStream, randCalls, pre, last,
                   visits, nbReads, display, posted, pending>>

\* usleep(WAIT);
MainWait ==
    /\ pc = "wait"
    /\ pc' = "loop"
    /\ pending' = 0
    /\ taken' = 0
    /\ UNCHANGED <<MAX_X, MAX_Y, world, user_exit, queue, gen, randStream,
                   randCalls, pre, last, visits, nbReads, display, observed,
                   posted>>

\* SDL_Quit(); return EXIT_SUCCESS;
MainQuit ==
    /\ pc = "quit"
    /\ pc' = "done"
    /\ UNCHANGED <<MAX_X, MAX_Y, world, user_exit, queue, gen, randStream,
                   randCalls, pre, last, visits, nbReads, display, input>>

\* The user closes the window, presses a key or moves the mouse while the
\* window exists.
PostEvent ==
    /\ pc \in {"loop", "rules", "draw", "poll", "wait"}
    /\ screen = "surface"
    /\ posted < MaxEvents
    /\ \E e \in EventTypes : queue' = Append(queue, e)
    /\ posted' = posted + 1
    /\ UNCHANGED <<MAX_X, MAX_Y, world, pc, user_exit, gen, randStream,
                   randCalls, pre, last, visits, nbReads, display, observed,
                   pending, taken>>

\* The steps of main from the first test of user_exit on
LoopStep ==
    \/ MainLoopTest
    \/ MainApplyRules
    \/ MainDraw
    \/ MainPoll
    \/ MainWait
    \/ MainQuit

Next ==
    \/ MainPopulate
    \/ MainSetUpSDL
    \/ MainLoopTest
    \/ MainApplyRules
    \/ MainDraw
    \/ MainPoll
    \/ MainWait
    \/ MainQuit
    \/ PostEvent

Spec == Init /\ [][Next]_vars

\* main started with a rand() sequence that repeats one value: what main does
\* with user_exit and the events does not depend on the cells.
InitLive == Init /\ randStream.step = 0

\* The loop keeps running: every step of it that can be taken is taken
\* (single thread, every call made in the loop returns). The user owes
\* nothing.
SpecLive == InitLive /\ [][Next]_vars /\ WF_vars(LoopStep)

-----------------------------------------------------------------------------
(* apply_rules called on the explored grids, generation after generation *)

InitRules ==
    /\ MAX_X = GridSize
    /\ MAX_Y = GridSize
    /\ InputGrid(world)
    /\ pc = "call"
    /\ NoWindow
    /\ user_exit = 0
    /\ queue = <<>>
    /\ gen = 0
    /\ randStream = [start |-> 0, step |-> 0]
    /\ randCalls = 0
    /\ pre = world
    /\ last = NoCall
    /\ visits = <<>>
    /\ nbReads = {}

CallApplyRules ==
    /\ pc = "call"
    /\ \E ub \in Oracles : DoApplyRules(ub)
    /\ UNCHANGED <<pc, user_exit, queue, gen, display, input>>

NextRules == CallApplyRules

SpecRules == InitRules /\ [][NextRules]_vars

-----------------------------------------------------------------------------
(* populate called once on the explored grids *)

InitPopulate ==
    /\ MAX_X = GridSize
    /\ MAX_Y = GridSize
    /\ (UniformGrid(world) \/ DirtyGrid(world, 1, CellValues \ {READY}))
    /\ pc = "call"
    /\ NoWindow
    /\ user_exit = 0
    /\ queue = <<>>
    /\ gen = 0
    /\ randStream \in RandStreams
    /\ randCalls = 0
    /\ pre = world
    /\ last = NoCall
    /\ visits = <<>>
    /\ nbReads = {}

\* populate(world, rand) for the flag values 0, 1 and 2
CallPopulate ==
    /\ pc = "call"
    /\ last.op = "none"
    /\ \E rand \in 0 .. 2 : \E ub \in Oracles : DoPopulate(rand, ub)
    /\ UNCHANGED <<pc, user_exit, queue, gen, display, input>>

NextPopulate == CallPopulate

SpecPopulate == InitPopulate /\ [][NextPopulate]_vars

-----------------------------------------------------------------------------
(* The scenario grids: 5x5, all READY but two FIRING cells *)

InitScenario ==
    /\ MAX_X = 5
    /\ MAX_Y = 5
    /\ \E a \in Cells : \E b \in Cells \ {a} :
          world = GridWith({a, b}, [c \in {a, b} |-> FIRING])
    /\ pc = "call"
    /\ NoWindow
    /\ user_exit = 0
    /\ queue = <<>>
    /\ gen = 0
    /\ randStream = [start |-> 0, step |-> 0]
    /\ randCalls = 0
    /\ pre = world
    /\ last = NoCall
    /\ visits = <<>>
    /\ nbReads = {}

SpecScenario == InitScenario /\ [][NextRules]_vars

-----------------------------------------------------------------------------
(* The two functions built with MAX_X and MAX_Y chosen independently *)

InitDims ==
    /\ MAX_X \in 1 .. MaxDim
    /\ MAX_Y \in 1 .. MaxDim
    /\ UniformGrid(world)
    /\ pc = "call"
    /\ NoWindow
    /\ user_exit = 0
    /\ queue = <<>>
    /\ gen = 0
    /\ randStream \in RandStreams
    /\ randCalls = 0
    /\ pre = world
    /\ last = NoCall
    /\ visits = <<>>
    /\ nbReads = {}

\* apply_rules as the first call
FirstApplyRules ==
    /\ last.op = "none"
    /\ CallApplyRules

NextDims == CallPopulate \/ FirstApplyRules

SpecDims == InitDims /\ [][NextDims]_vars

-----------------------------------------------------------------------------
(* The renderers called on the explored grids *)

InitRender ==
    /\ MAX_X = GridSize
    /\ MAX_Y = GridSize
    /\ InputGrid(world)
    /\ pc = "call"
    /\ NoWindow
    /\ user_exit = 0
    /\ queue = <<>>
    /\ gen = 0
    /\ randStream = [start |-> 0, step |-> 0]
    /\ randCalls = 0
    /\ pre = world
    /\ last = NoCall
    /\ visits = <<>>
    /\ nbReads = {}

\* if (world[x][y] = FIRING): an assignment where the comparison stands, so
\* that every cell is set to FIRING and drawn green
CallDrawWorldRects_Assign ==
    /\ pc = "call"
    /\ canvas' = SDL_FillRect(NewSurface, NullRect, "green")
    /\ world' = [x \in 0 .. MAX_X - 1 |-> [y \in 0 .. MAX_Y - 1 |-> FIRING]]
    /\ pre' = world
    /\ last' = [op |-> "draw_world_rects", rand |-> 0, draws |-> <<>>]
    /\ UNCHANGED <<MAX_X, MAX_Y, pc, user_exit, queue, gen, randStream, randCalls,
                   visits, nbReads, sdl_init, screen, shown, frames, input>>

\* draw_world_rects(surface, world, CELLSIZE, LINE) on a blank surface
CallDrawWorldRects ==
    /\ pc = "call"
    /\ canvas' = draw_world_rects(NewSurface, world, CELLSIZE, LINE)
    /\ pre' = world
    /\ last' = [op |-> "draw_world_rects", rand |-> 0, draws |-> <<>>]
    /\ UNCHANGED <<MAX_X, MAX_Y, world, pc, user_exit, queue, gen, randStream,
                   randCalls, visits, nbReads, sdl_init, screen, shown, frames,
                   input>>

\* print_world(world); the text printed is kept in last.out
CallPrintWorld ==
    /\ pc = "call"
    /\ \E ub \in Oracles :
          last' = [op |-> "print_world", rand |-> 0, draws |-> <<>>,
                   out |-> print_world(world, ub)]
    /\ pre' = world
    /\ UNCHANGED <<MAX_X, MAX_Y, world, pc, user_exit, queue, gen, randStream,
                   randCalls, visits, nbReads, display, input>>

NextRender == CallDrawWorldRects \/ CallPrintWorld

SpecRender == InitRender /\ [][NextRender]_vars

-----------------------------------------------------------------------------
(* Definitions the properties are stated with *)

AfterRules == last.op = "apply_rules"
AfterPopulate == last.op = "populate"

ThreeState(g) == \A c \in Cells : g[c[1]][c[2]] \in States

\* The Moore neighbours of c that exist: the up to 8 adjacent cells.
Moore(c) ==
    {d \in Cells : /\ d # c
                   /\ d[1] - c[1] \in -1 .. 1
                   /\ d[2] - c[2] \in -1 .. 1}

FiringAround(g, c) == Cardinality({d \in Moore(c) : g[d[1]][d[2]] = FIRING})

\* The fully simultaneous step: every cell's next state from g alone (a cell
\* holding none of the three states counts as not firing and becomes READY).
SimultaneousStep(g) ==
    [x \in 0 .. MAX_X - 1 |-> [y \in 0 .. MAX_Y - 1 |->
        IF g[x][y] = READY
        THEN IF FiringAround(g, <<x, y>>) = 2 THEN FIRING ELSE READY
        ELSE IF g[x][y] = FIRING THEN REFRACTORY ELSE READY]]

\* The loop body of apply_rules applied to the copy tmp in the order given.
RECURSIVE RulesOver(_, _, _, _)
RulesOver(w, tmp, order, k) ==
    IF k > Len(order) THEN w
    ELSE RulesOver(RulesStep(w, tmp, order[k][1], order[k][2], <<>>),
                   tmp, order, k + 1)

Reversed(order) == [k \in 1 .. Len(order) |-> order[Len(order) + 1 - k]]

\* x in the outer loop, y in the inner one
ColumnOrder ==
    [k \in 1 .. MAX_X * MAX_Y |-> <<(k - 1) \div MAX_Y, (k - 1) % MAX_Y>>]

\* The step as it would be without the copy, every read from the live array.
RECURSIVE InPlaceOver(_, _, _)
InPlaceOver(w, order, k) ==
    IF k > Len(order) THEN w
    ELSE InPlaceOver(RulesStep_InPlace(w, w, order[k][1], order[k][2], <<>>),
                     order, k + 1)

-----------------------------------------------------------------------------
(* C1, ignition rule *)

\* C1: after apply_rules, a cell that was READY before the call is FIRING if
\* and only if exactly 2 of its in-bounds Moore neighbours were FIRING before
\* the call, and is still READY otherwise.
C1_Ignition ==
    AfterRules =>
        \A c \in Cells :
            pre[c[1]][c[2]] = READY =>
                world[c[1]][c[2]] =
                    IF FiringAround(pre, c) = 2 THEN FIRING ELSE READY

\* reached: in one call a ready cell with 2 firing neighbours has fired and a
\* ready cell with more than 2 has not
C1_Witness ==
    /\ AfterRules
    /\ \E c \in Cells : /\ pre[c[1]][c[2]] = READY
                        /\ FiringAround(pre, c) = 2
                        /\ world[c[1]][c[2]] = FIRING
    /\ \E c \in Cells : /\ pre[c[1]][c[2]] = READY
                        /\ FiringAround(pre, c) > 2
                        /\ world[c[1]][c[2]] = READY

(* C2, firing decay *)

\* C2: after apply_rules, every cell that was FIRING before the call is
\* REFRACTORY, whatever its neighbours were.
C2_FiringDecay ==
    AfterRules =>
        \A c \in Cells :
            pre[c[1]][c[2]] = FIRING => world[c[1]][c[2]] = REFRACTORY

\* reached: a firing cell with exactly 2 firing neighbours has become refractory
C2_Witness ==
    /\ AfterRules
    /\ \E c \in Cells : /\ pre[c[1]][c[2]] = FIRING
                        /\ FiringAround(pre, c) = 2
                        /\ world[c[1]][c[2]] = REFRACTORY

(* C3, refractory decay *)

\* C3: after apply_rules, every cell that was REFRACTORY before the call is
\* READY, whatever its neighbours were.
C3_RefractoryDecay ==
    AfterRules =>
        \A c \in Cells :
            pre[c[1]][c[2]] = REFRACTORY => world[c[1]][c[2]] = READY

\* reached: a refractory cell with exactly 2 firing neighbours has become ready
C3_Witness ==
    /\ AfterRules
    /\ \E c \in Cells : /\ pre[c[1]][c[2]] = REFRACTORY
                        /\ FiringAround(pre, c) = 2
                        /\ world[c[1]][c[2]] = READY

(* C4, cell-state invariant *)

\* C4: in every generation of a run of main, from generation 0 as populate
\* leaves it on, every cell holds one of READY, REFRACTORY, FIRING.
C4_ThreeStates == pc # "populate" => ThreeState(world)

(* C5, random seeding *)

\* C5: after populate(world, 1) every cell is FIRING if the integer drawn for
\* it in 0..9 is greater than DENSITY and READY otherwise, whatever it held.
C5_RandomSeeding ==
    (AfterPopulate /\ last.rand = 1) =>
        \A k \in 1 .. Len(visits) :
            world[visits[k][1]][visits[k][2]] =
                IF last.draws[k] > DENSITY THEN FIRING ELSE READY

(* C6, non-random seeding *)

\* C6: after populate(world, r) with r other than 1 every cell is READY and
\* no random draw has been consumed.
C6_PlainSeeding ==
    (AfterPopulate /\ last.rand # 1) =>
        /\ \A c \in Cells : world[c[1]][c[2]] = READY
        /\ randCalls = 0
        /\ last.draws = <<>>

\* reached: populate(world, 2) has cleared a grid that held something else
C6_Witness ==
    /\ AfterPopulate
    /\ last.rand = 2
    /\ \E c \in Cells : pre[c[1]][c[2]] # READY
    /\ \A c \in Cells : world[c[1]][c[2]] = READY

(* C7, simultaneity *)

\* C7: the grid apply_rules produces is the fully simultaneous step of the
\* grid before the call (every cell's next state computed from that grid
\* alone), and the same grid results when the cells are visited in reverse or
\* column by column.
C7_Simultaneity ==
    AfterRules =>
        /\ world = SimultaneousStep(pre)
        /\ world = RulesOver(pre, pre, Reversed(LoopOrder), 1)
        /\ world = RulesOver(pre, pre, ColumnOrder, 1)

\* reached: a call on a three-state grid on which the step without the copy
\* would have given another grid
C7_Witness ==
    /\ AfterRules
    /\ ThreeState(pre)
    /\ world = SimultaneousStep(pre)
    /\ world # InPlaceOver(pre, LoopOrder, 1)

(* C8, the 5x5 scenario *)

ScenarioGrid == GridWith({<<1, 2>>, <<3, 2>>}, [c \in {<<1, 2>>, <<3, 2>>} |-> FIRING])

\* C8 as stated: from the scenario grid, after one apply_rules (2,2) is FIRING,
\* (1,2) and (3,2) are REFRACTORY and all other cells are READY.
C8_AsStated ==
    (AfterRules /\ pre = ScenarioGrid) =>
        \A c \in Cells :
            world[c[1]][c[2]] =
                IF c = <<2, 2>> THEN FIRING
                ELSE IF c \in {<<1, 2>>, <<3, 2>>} THEN REFRACTORY
                ELSE READY

\* C8 amended: from the scenario grid, after one apply_rules (2,1), (2,2) and
\* (2,3) are FIRING, (1,2) and (3,2) are REFRACTORY and all other cells READY.
C8_Scenario ==
    (AfterRules /\ pre = ScenarioGrid) =>
        \A c \in Cells :
            world[c[1]][c[2]] =
                IF c \in {<<2, 1>>, <<2, 2>>, <<2, 3>>} THEN FIRING
                ELSE IF c \in {<<1, 2>>, <<3, 2>>} THEN REFRACTORY
                ELSE READY

\* reached: apply_rules has been applied to the scenario grid
C8_Witness ==
    /\ AfterRules
    /\ pre = ScenarioGrid
    /\ world[2][2] = FIRING
    /\ world[1][2] = REFRACTORY

(* C9, bounds safety *)

\* C9: whatever MAX_X and MAX_Y are, populate, apply_rules and count_neighbours
\* index only cells inside the array, and the loops of populate and
\* apply_rules visit every cell exactly once.
C9_BoundsSafety ==
    last.op # "none" =>
        /\ \A k \in 1 .. Len(visits) : InRange(visits[k][1], visits[k][2])
        /\ \A c \in Cells :
              Cardinality({k \in 1 .. Len(visits) : visits[k] = c}) = 1
        /\ nbReads \subseteq Cells

(* C10, edge handling *)

Border == {c \in Cells : c[1] \in {0, MAX_X - 1} \/ c[2] \in {0, MAX_Y - 1}}

\* The positions around c that are inside the grid.
InBoundsAround(c) ==
    {d \in {<<c[1] + dx, c[2] + dy>> : dx \in -1 .. 1, dy \in -1 .. 1} \ {c} :
        InRange(d[1], d[2])}

CornerNeighbours == {<<1, 0>>, <<0, 1>>, <<1, 1>>}

\* C10: a READY corner cell (0,0) fires if and only if exactly 2 of (1,0),
\* (0,1), (1,1) were FIRING; the same holds for every border cell with its
\* in-bounds neighbours; no position outside the grid is read.
C10_EdgeHandling ==
    AfterRules =>
        /\ nbReads \subseteq Cells
        /\ pre[0][0] = READY =>
              (world[0][0] = FIRING <=>
                  Cardinality({d \in CornerNeighbours :
                                  pre[d[1]][d[2]] = FIRING}) = 2)
        /\ \A c \in Border :
              pre[c[1]][c[2]] = READY =>
                  (world[c[1]][c[2]] = FIRING <=>
                      Cardinality({d \in InBoundsAround(c) :
                                      pre[d[1]][d[2]] = FIRING}) = 2)

\* reached: the corner has fired on 2 of its 3 neighbours while a third cell,
\* not adjacent to it, was firing too
C10_Witness ==
    /\ AfterRules
    /\ pre[0][0] = READY
    /\ Cardinality({d \in CornerNeighbours : pre[d[1]][d[2]] = FIRING}) = 2
    /\ \E d \in Cells \ (CornerNeighbours \cup {<<0, 0>>}) :
          pre[d[1]][d[2]] = FIRING
    /\ world[0][0] = FIRING

-----------------------------------------------------------------------------
(* The driver *)

InLoop == pc \in {"rules", "draw", "poll", "wait"}

\* C11 (driver contract): main leaves its loop, or never enters it, only
\* after the poll has observed an SDL_QUIT or SDL_KEYDOWN event: it has
\* reached SDL_Quit only if such an event was observed.
C11_ExitOnlyOnEvent == pc \in {"quit", "done"} => observed

\* C12 (initialization failure): when SDL_Init failed or SDL_SetVideoMode
\* returned no surface, no iteration of the loop is executed: the loop body
\* is never entered, apply_rules is not called and nothing dereferences the
\* missing surface.
C12_NoLoopWithoutSurface ==
    (sdl_init = -1 \/ screen = "NULL") =>
        /\ ~InLoop
        /\ pc # "crashed"
        /\ gen = 0

AfterRender == last.op \in {"draw_world_rects", "print_world"}

\* The colour draw_world_rects gives the rectangle of a cell
Colour(v) == IF v = FIRING THEN "green" ELSE IF v = REFRACTORY THEN "blue" ELSE "black"

\* C13 (renderer frame condition): draw_world_rects and print_world leave
\* every cell of the grid as it was: the grid after a render equals the grid
\* before it.
C13_RenderersKeepGrid == AfterRender => world = pre

\* draw_world_rects has drawn a grid holding FIRING and REFRACTORY cells: green
\* and blue rectangles where they are, black elsewhere.
C13_Witness ==
    /\ last.op = "draw_world_rects"
    /\ \E c \in Cells : world[c[1]][c[2]] = FIRING
    /\ \E c \in Cells : world[c[1]][c[2]] = REFRACTORY
    /\ \A c \in Cells :
          canvas[<<c[1] * CELLSIZE, c[2] * CELLSIZE>>] = Colour(pre[c[1]][c[2]])

\* The picture of a grid: green where it is FIRING, blue where REFRACTORY
Image(g) ==
    [o \in {<<c[1] * CELLSIZE, c[2] * CELLSIZE>> : c \in Cells} |->
        Colour(g[o[1] \div CELLSIZE][o[2] \div CELLSIZE])]

\* Where main moves from one statement to another, the statement it comes
\* from: the body is entered from the loop test with the flag clear, the
\* render follows the rule application, the poll the render, the wait the
\* poll, the loop test the wait, and the loop is left from the loop test only.
OrderedStep ==
    pc' # pc =>
        /\ pc' = "rules" => pc = "loop" /\ user_exit = 0
        /\ pc' = "draw" => pc = "rules" /\ last'.op = "apply_rules" /\ pre' = world
        /\ pc' = "poll" => pc = "draw" /\ world' = world
        /\ pc' = "wait" => pc = "poll" /\ world' = world
        /\ pc' = "loop" => pc \in {"sdl", "wait"} /\ world' = world
        /\ pc' = "quit" => pc = "loop" /\ user_exit # 0
        /\ user_exit' # user_exit => pc = "poll"

\* Frames and generations run together: after the flip of an iteration as
\* many frames as generations, and the window shows the current grid.
FramesFollowGenerations ==
    /\ frames <= gen
    /\ frames >= 1 => screen = "surface"
    /\ (screen = "surface" /\ pc \in {"poll", "wait", "loop", "quit", "done"}) =>
          /\ frames = gen
          /\ frames >= 1 => shown = Image(world)
    /\ (screen = "surface" /\ pc \in {"rules", "draw"}) =>
          /\ pc = "rules" => frames = gen
          /\ pc = "draw" => gen = Bump(frames)
          /\ frames >= 1 => shown = Image(IF pc = "rules" THEN world ELSE pre)
    /\ gen = 0 => shown = NoSurface

\* C14 (iteration ordering): every iteration does, in this order and once
\* each, apply_rules, the render (draw_world_rects, SDL_Flip), the poll and
\* the wait; user_exit is tested between iterations only; the k-th frame shows
\* generation k, and generation 0 is never shown.
C14_IterationOrder == [][OrderedStep]_vars /\ []FramesFollowGenerations

\* The second frame is in the window: it shows generation 2, which has FIRING
\* and REFRACTORY cells, and the wait of the second iteration has begun.
C14_Witness ==
    /\ pc = "wait"
    /\ frames = 2
    /\ gen = 2
    /\ shown = Image(world)
    /\ \E o \in DOMAIN shown : shown[o] = "green"
    /\ \E o \in DOMAIN shown : shown[o] = "blue"

ExitEvents == {SDL_QUIT, SDL_KEYDOWN}

\* The poll takes the event at the head of the queue
TakesEvent == pc = "poll" /\ queue # <<>> /\ queue' = Tail(queue)

\* What the poll does with an event, and what main does once an exit event
\* was observed: the flag is set by the step that takes the event, other
\* events leave it, and no rule application or render follows.
ExitStep ==
    /\ (TakesEvent /\ Head(queue) \in ExitEvents) => user_exit' = 1
    /\ (TakesEvent /\ Head(queue) \notin ExitEvents) => user_exit' = user_exit
    /\ observed =>
          /\ pc' \notin {"rules", "draw"}
          /\ world' = world /\ gen' = gen /\ frames' = frames /\ shown' = shown
          /\ user_exit' = 1

ExitPending == \E i \in 1 .. Len(queue) : queue[i] \in ExitEvents

\* C15 (exit response): the poll that takes an SDL_QUIT or SDL_KEYDOWN sets
\* user_exit, other events never do; once set there is no further apply_rules
\* or render, and after the wait main reaches SDL_Quit and returns: an exit
\* event delivered while main runs leads to its termination.
C15_ExitResponse ==
    /\ [][ExitStep]_vars
    /\ [](observed => user_exit = 1 /\ pc \in {"poll", "wait", "loop", "quit", "done"})
    /\ (ExitPending ~> pc = "done")
    /\ (observed ~> pc = "done")

\* main has returned after a key press observed in its second iteration, the
\* grid being at generation 2.
C15_Witness ==
    /\ pc = "done"
    /\ observed
    /\ user_exit = 1
    /\ gen = 2
    /\ frames = 2

\* A step of the poll: with an event pending main takes it and polls again,
\* whatever user_exit holds; it goes on to the wait only from an empty queue,
\* every event that was pending when the poll began having been taken.
DrainStep ==
    /\ (pc = "poll" /\ queue # <<>> /\ posted' = posted) =>
          /\ queue' = Tail(queue)
          /\ taken' = taken + 1
          /\ pc' = "poll"
    /\ (pc = "poll" /\ pc' = "wait") =>
          /\ queue = <<>>
          /\ queue' = <<>>
          /\ taken >= pending

\* C16 (poll drains the queue): the poll of an iteration takes events until
\* none is pending, also after an exit event; when the wait starts every
\* event pending at the start of the poll has been consumed; with an empty
\* queue the poll does not block.
C16_PollDrains ==
    /\ [][DrainStep]_vars
    /\ [](pc = "poll" => ENABLED MainPoll /\ taken + Len(queue) >= pending)
    /\ [](pc = "wait" => taken >= pending)

\* The wait has begun after a poll that found two events pending, one of them
\* an exit event, and took both.
C16_Witness ==
    /\ pc = "wait"
    /\ pending = 2
    /\ taken = 2
    /\ queue = <<>>
    /\ observed

-----------------------------------------------------------------------------
(* The rule engine over generations *)

FiringCount(g) == Cardinality({c \in Cells : g[c[1]][c[2]] = FIRING})
AllReady(g) == \A c \in Cells : g[c[1]][c[2]] = READY

\* C17 (centre cell): count_neighbours counts the FIRING cells of the whole
\* 3x3 block, centre included; apply_rules uses the count only for cells that
\* were READY, for which it is the number of FIRING in-bounds neighbours, the
\* centre not among them.
C17_CentreCell ==
    AfterRules =>
        \A c \in Cells :
            LET n == count_neighbours(pre, c[1], c[2])
                cell == pre[c[1]][c[2]]
            IN  /\ n = FiringAround(pre, c) + (IF cell = FIRING THEN 1 ELSE 0)
                /\ cell = READY =>
                      /\ n = FiringAround(pre, c)
                      /\ world[c[1]][c[2]] = FIRING <=> n = 2
                /\ cell # READY =>
                      world[c[1]][c[2]] = IF cell = FIRING THEN REFRACTORY ELSE READY

\* reached: a ready cell has fired on a count of 2; a firing cell whose block
\* counts 2 with itself, and one whose block counts 3, have become refractory
C17_Witness ==
    /\ AfterRules
    /\ \E c \in Cells : /\ pre[c[1]][c[2]] = READY
                        /\ count_neighbours(pre, c[1], c[2]) = 2
                        /\ world[c[1]][c[2]] = FIRING
    /\ \E c \in Cells : /\ pre[c[1]][c[2]] = FIRING
                        /\ count_neighbours(pre, c[1], c[2]) = 2
                        /\ FiringAround(pre, c) = 1
                        /\ world[c[1]][c[2]] = REFRACTORY
    /\ \E c \in Cells : /\ pre[c[1]][c[2]] = FIRING
                        /\ count_neighbours(pre, c[1], c[2]) = 3
                        /\ world[c[1]][c[2]] = REFRACTORY

\* Two consecutive calls: pre is generation t, world generation t+1 and
\* world' generation t+2.
SecondCall == AfterRules /\ last'.op = "apply_rules" /\ pre' = world

\* C18 (life cycle, three-state grids): a cell is REFRACTORY at t+1 exactly
\* when it was FIRING at t; a cell FIRING at t+1 was READY at t; no cell is
\* FIRING in two consecutive generations; a cell FIRING at t is REFRACTORY at
\* t+1 and READY at t+2, so that it fires again at t+3 at the earliest.
C18_LifeCycle ==
    /\ [](AfterRules /\ ThreeState(pre) =>
            \A c \in Cells :
                /\ world[c[1]][c[2]] = REFRACTORY <=> pre[c[1]][c[2]] = FIRING
                /\ world[c[1]][c[2]] = FIRING => pre[c[1]][c[2]] = READY
                /\ ~(pre[c[1]][c[2]] = FIRING /\ world[c[1]][c[2]] = FIRING))
    /\ [][SecondCall /\ ThreeState(pre) =>
            \A c \in Cells :
                pre[c[1]][c[2]] = FIRING =>
                    /\ world[c[1]][c[2]] = REFRACTORY
                    /\ world'[c[1]][c[2]] = READY]_vars

\* reached: in one call on a three-state grid a firing cell with 2 firing
\* neighbours has become refractory, a refractory cell with 2 firing
\* neighbours has become ready, and some cell fires in the new generation
C18_Witness ==
    /\ AfterRules
    /\ ThreeState(pre)
    /\ \E c \in Cells : /\ pre[c[1]][c[2]] = REFRACTORY
                        /\ FiringAround(pre, c) = 2
                        /\ world[c[1]][c[2]] = READY
    /\ \E c \in Cells : /\ pre[c[1]][c[2]] = FIRING
                        /\ FiringAround(pre, c) = 2
                        /\ world[c[1]][c[2]] = REFRACTORY
    /\ \E c \in Cells : world[c[1]][c[2]] = FIRING

\* The grid with READY in place of every value that is not one of the states
Cleaned(g) ==
    [x \in 0 .. MAX_X - 1 |-> [y \in 0 .. MAX_Y - 1 |->
        IF g[x][y] \in States THEN g[x][y] ELSE READY]]

\* C19 (normalisation of foreign values): after one apply_rules on a grid of
\* arbitrary ints every cell holds one of the three states; a cell that was
\* neither READY nor FIRING is READY; such a cell is never counted as a firing
\* neighbour. From the first call on the grid is three-state.
C19_Normalisation ==
    AfterRules =>
        LET clean == Cleaned(pre)
        IN  /\ ThreeState(world)
            /\ \A c \in Cells :
                  pre[c[1]][c[2]] \notin {READY, FIRING} => world[c[1]][c[2]] = READY
            /\ ~ThreeState(pre) =>
                  \A c \in Cells :
                      /\ count_neighbours(pre, c[1], c[2]) =
                             count_neighbours(clean, c[1], c[2])
                      /\ pre[c[1]][c[2]] = READY =>
                            (world[c[1]][c[2]] = FIRING <=>
                                FiringAround(clean, c) = 2)

\* reached: a cell holding a foreign value has become READY, and a ready cell
\* next to it with one firing neighbour has not fired
C19_Witness ==
    /\ AfterRules
    /\ \E c \in Cells :
          /\ pre[c[1]][c[2]] = Foreign
          /\ world[c[1]][c[2]] = READY
          /\ \E d \in Moore(c) :
                /\ pre[d[1]][d[2]] = READY
                /\ FiringAround(pre, d) = 1
                /\ world[d[1]][d[2]] = READY

\* One call of apply_rules, from generation world to generation world'
RulesCall == last'.op = "apply_rules" /\ pre' = world

\* What a call does to a quiet grid: the all-READY grid stays as it is; no
\* cell fires unless at least 2 cells were FIRING; and a three-state grid that
\* had fewer than 2 FIRING cells one call ago is all READY after this call.
QuietStep ==
    RulesCall =>
        /\ AllReady(world) => world' = world
        /\ FiringCount(world') > 0 => FiringCount(world) >= 2
        /\ (AfterRules /\ ThreeState(pre) /\ FiringCount(pre) < 2) => AllReady(world')
        /\ (AfterRules /\ AllReady(pre)) => AllReady(world')

\* C20 (quiescence): the all-READY grid is a fixed point of apply_rules; a
\* three-state grid with fewer than 2 FIRING cells is all READY after at most
\* 2 calls and stays so; FIRING cells appear only when the generation before
\* had at least 2 FIRING cells.
C20_Quiescence ==
    /\ [][QuietStep]_vars
    /\ [](AfterRules /\ FiringCount(pre) < 2 => FiringCount(world) = 0)
    /\ [](AfterRules /\ ThreeState(pre) /\ FiringCount(pre) < 2 =>
            \A c \in Cells : world[c[1]][c[2]] = REFRACTORY <=> pre[c[1]][c[2]] = FIRING)

\* reached: a grid with one FIRING and one REFRACTORY cell has gone through
\* its first call: the firing cell is refractory, nothing fires
C20_Witness ==
    /\ AfterRules
    /\ ThreeState(pre)
    /\ FiringCount(pre) = 1
    /\ \E c \in Cells : pre[c[1]][c[2]] = REFRACTORY
    /\ FiringCount(world) = 0
    /\ Cardinality({c \in Cells : world[c[1]][c[2]] = REFRACTORY}) = 1

====
